---- MODULE Spec2Model ----
(***************************************************************************)
(* A model of src/server.js ("The Line" relay server): the rate limiter,   *)
(* the participant registry, the journalist key, the message store, the    *)
(* chunk reassembler, the purge ("nuke") operation and the three timers.   *)
(*                                                                         *)
(* Every HTTP request is one atomic step: Node runs the rateLimit          *)
(* middleware and the route handler of a request synchronously, without    *)
(* yielding to another request or timer in between.                        *)
(*                                                                         *)
(* The chunk key `${from}_${fileName}` and key.startsWith(hash + '_') are  *)
(* computed on strings as the code computes them.  A JavaScript value is a *)
(* record [type, str, num]; objects live in a heap and are held by         *)
(* reference.                                                              *)
(***************************************************************************)
EXTENDS Integers, Sequences, FiniteSets, TLC

(***************************************************************************)
(* Program constants.  The three durations are the program's values in     *)
(* milliseconds.  The capacities are scaled down (the program's values are *)
(* 10000, 5000, 100000, 100000 and 100): the formulas below are stated in  *)
(* terms of the names, never of the scaled values.                         *)
(***************************************************************************)
MAX_MESSAGES == 2
MAX_USERS == 2
MAX_MESSAGE_SIZE == 1
MAX_CHUNK_SIZE == 1
RATE_LIMIT_WINDOW == 60000
RATE_LIMIT_MAX_REQUESTS == 2
EXPIRATION_TIME == 24 * 60 * 60 * 1000
SWEEP_INTERVAL == 60 * 60 * 1000
CHUNK_CLEANUP_DELAY == 60000
MAX_FILENAME_LENGTH == 255
HASH_LENGTH == 32

(***************************************************************************)
(* Bounds of the model.                                                    *)
(***************************************************************************)
\* largest totalChunks a request declares; chunk indices range over 0..MaxChunks
MaxChunks == 2
\* the model stops accepting appends beyond MAX_MESSAGES + MaxOverflow messages
MaxOverflow == 1

(***************************************************************************)
(* JavaScript values.                                                      *)
(***************************************************************************)
Undefined == [type |-> "undefined", str |-> "", num |-> 0]
Null == [type |-> "null", str |-> "", num |-> 0]
False == [type |-> "boolean", str |-> "", num |-> 0]
True == [type |-> "boolean", str |-> "", num |-> 1]
Str(s) == [type |-> "string", str |-> s, num |-> 0]
Num(n) == [type |-> "number", str |-> "", num |-> n]
\* a reference to the heap object at address a
Ref(a) == [type |-> "object", str |-> "", num |-> a]

\* ToBoolean: undefined, null, false, 0 and "" are falsy
Truthy(v) ==
    CASE v.type = "string" -> v.str # ""
      [] v.type = "number" -> v.num # 0
      [] v.type = "boolean" -> v.num = 1
      [] v.type = "object" -> TRUE
      [] OTHER -> FALSE

\* a || b
OrElse(a, b) == IF Truthy(a) THEN a ELSE b

RECURSIVE Repeat(_, _)
Repeat(c, n) ==
    IF n = 0 THEN ""
    ELSE IF n = 1 THEN c
    ELSE Repeat(c, n \div 2) \o Repeat(c, n - (n \div 2))

StartsWith(s, prefix) ==
    /\ Len(s) >= Len(prefix)
    /\ SubSeq(s, 1, Len(prefix)) = prefix

HexChars == {"a", "b", "c", "d", "e", "f",
             "0", "1", "2", "3", "4", "5", "6", "7", "8", "9"}

\* server.js 87-89
validateHash(hash) ==
    /\ Truthy(hash)
    /\ hash.type = "string"
    /\ Len(hash.str) = HASH_LENGTH
    /\ \A i \in 1..Len(hash.str) : SubSeq(hash.str, i, i) \in HexChars

\* server.js 91-93
validateMessageData(data) ==
    /\ Truthy(data)
    /\ data.type = "string"
    /\ Len(data.str) <= MAX_MESSAGE_SIZE

(***************************************************************************)
(* State.                                                                  *)
(*   now                  Date.now(), in milliseconds since process start  *)
(*   env                  process.env (JOURNALIST_SECRET)                  *)
(*   rateLimitMap         Map: client key -> {count, resetTime}            *)
(*   messages, users      the arrays of the same names                     *)
(*   fileChunks           object: chunk key -> reference to a chunk set    *)
(*   heap                 the chunk-set objects, by address; a completed   *)
(*                        message's fileData refers to the same object as  *)
(*                        fileChunks[chunkKey]                             *)
(*   journalistPublicKey  the variable of the same name                    *)
(*   timeouts             pending setTimeout callbacks {key, at}           *)
(*   due                  the setInterval callbacks due at this instant    *)
(*   res                  the response to the latest request               *)
(*   calls                history: per client, the start of its current    *)
(*                        window and the number of calls made in it        *)
(***************************************************************************)
VARIABLES now, env, rateLimitMap, messages, users, fileChunks, heap,
          journalistPublicKey, timeouts, due, res, calls

vars == <<now, env, rateLimitMap, messages, users, fileChunks, heap,
          journalistPublicKey, timeouts, due, res, calls>>

\* the shared state of spec section 5, with references resolved
store == <<messages, users, fileChunks, heap, journalistPublicKey>>

(***************************************************************************)
(* Inputs.                                                                 *)
(***************************************************************************)
H1 == Repeat("a", HASH_LENGTH)
H2 == Repeat("b", HASH_LENGTH)
H3 == Repeat("c", HASH_LENGTH)
\* a sender that is not a hash and begins with H1 followed by the separator
H1x == H1 \o "_x"

\* a client-supplied timestamp lying far in the future
FutureTimestamp == 2 * (EXPIRATION_TIME + SWEEP_INTERVAL)

\* Math.random().toString(36).substr(2, 9)
RandomSuffixes == {"r"}

(***************************************************************************)
(* Helpers.                                                                *)
(***************************************************************************)
\* an object or Map without entries
Empty == [k \in {} |-> 0]

Floor(t, period) == (t \div period) * period

\* the function f without the arguments in the set gone
Without(f, gone) == [k \in (DOMAIN f) \ gone |-> f[k]]

\* the function f with f[k] = v
With(f, k, v) == [x \in (DOMAIN f) \cup {k} |-> IF x = k THEN v ELSE f[x]]

\* addresses a message list and a chunk-set map refer to
Referenced(msgs, fc) ==
    {fc[k].num : k \in DOMAIN fc}
        \cup {msgs[i].fileData.num : i \in {j \in 1..Len(msgs) : msgs[j].fileData.type = "object"}}

\* garbage collection: an object nothing refers to is gone
Collect(h, msgs, fc) == [a \in (DOMAIN h) \cap Referenced(msgs, fc) |-> h[a]]

\* `${from}_${fileName}`, server.js 193
chunkKey(from, fileName) == from.str \o "_" \o fileName.str

\* Date.now().toString() + Math.random().toString(36).substr(2, 9)
newId(r) == [time |-> now, random |-> r]

(***************************************************************************)
(* rateLimit, server.js 21-43.                                             *)
(***************************************************************************)
\* mutant: the window taken to end one millisecond early
windowExpiredEarly(record) == now >= record.resetTime

windowExpired(record) == now > record.resetTime

limitReached(record) == record.count >= RATE_LIMIT_MAX_REQUESTS

freshRecord == [count |-> 1, resetTime |-> now + RATE_LIMIT_WINDOW]

\* whether the middleware calls next()
admitted(c) ==
    \/ c \notin DOMAIN rateLimitMap
    \/ windowExpired(rateLimitMap[c])
    \/ ~limitReached(rateLimitMap[c])

\* mutant: the call counted before the limit is looked at
rateLimitCountingFirst(c) ==
    IF c \notin DOMAIN rateLimitMap THEN With(rateLimitMap, c, freshRecord)
    ELSE IF windowExpired(rateLimitMap[c]) THEN With(rateLimitMap, c, freshRecord)
    ELSE With(rateLimitMap, c,
              [rateLimitMap[c] EXCEPT !.count = rateLimitMap[c].count + 1])

\* the map the middleware leaves
rateLimit(c) ==
    IF c \notin DOMAIN rateLimitMap THEN With(rateLimitMap, c, freshRecord)
    ELSE IF windowExpired(rateLimitMap[c]) THEN With(rateLimitMap, c, freshRecord)
    ELSE IF limitReached(rateLimitMap[c]) THEN rateLimitMap
    ELSE With(rateLimitMap, c,
              [rateLimitMap[c] EXCEPT !.count = rateLimitMap[c].count + 1])

\* history: a call made more than one window after the first call of the
\* current window (or the first call ever) starts a new window
observe(c) ==
    IF c \in DOMAIN calls /\ now <= calls[c].start + RATE_LIMIT_WINDOW
    THEN With(calls, c, [calls[c] EXCEPT
              !.n = IF calls[c].n > RATE_LIMIT_MAX_REQUESTS THEN calls[c].n ELSE calls[c].n + 1])
    ELSE With(calls, c, [start |-> now, n |-> 1])

\* app.use(rateLimit): every request passes the middleware first
Middleware(c) ==
    /\ rateLimitMap' = rateLimit(c)
    /\ calls' = observe(c)
    /\ UNCHANGED <<now, env, due>>

Respond(op, status, received) ==
    res' = [op |-> op, status |-> status, received |-> received, key |-> Undefined]

\* mutant: the response never carries a key
RespondWithNull(op, key) ==
    res' = [op |-> op, status |-> 200, received |-> 0, key |-> Null]

\* res.json({ success: true, journalistPublicKey: journalistPublicKey }),
\* server.js 116-119
RespondWithKey(op, key) ==
    res' = [op |-> op, status |-> 200, received |-> 0, key |-> key]

\* a request that is answered with an error status
Reject(op, status) ==
    /\ Respond(op, status, 0)
    /\ UNCHANGED <<messages, users, fileChunks, heap, journalistPublicKey, timeouts>>

(***************************************************************************)
(* POST /api/register-user, server.js 96-120.                              *)
(***************************************************************************)
\* mutant: no identifier is ever found in the registry
isRegisteredNever(hash) == FALSE

isRegistered(hash) == \E i \in 1..Len(users) : users[i].hash = hash

\* mutant: a full registry refuses the registered identifiers too
registryFullForAll(hash) == Len(users) >= MAX_USERS

registryFull(hash) == Len(users) >= MAX_USERS /\ ~isRegistered(hash)

RegisterUser(c, hash) ==
    /\ Middleware(c)
    /\ IF ~admitted(c) THEN Reject("register-user", 429)
       ELSE IF ~validateHash(hash) THEN Reject("register-user", 400)
       ELSE IF registryFull(hash) THEN Reject("register-user", 503)
       ELSE /\ users' = IF ~isRegistered(hash)
                        THEN Append(users, [hash |-> hash, lastActive |-> now])
                        ELSE LET i == CHOOSE j \in 1..Len(users) :
                                        /\ users[j].hash = hash
                                        /\ \A k \in 1..(j - 1) : users[k].hash # hash
                             IN  [users EXCEPT ![i].lastActive = now]
            /\ RespondWithKey("register-user", journalistPublicKey)
            /\ UNCHANGED <<messages, fileChunks, heap, journalistPublicKey, timeouts>>

(***************************************************************************)
(* POST /api/register-journalist, server.js 123-137.                       *)
(***************************************************************************)
secretRequired(secret) ==
    Truthy(journalistPublicKey) /\ secret # env.JOURNALIST_SECRET

RegisterJournalist(c, publicKey, secret) ==
    /\ Middleware(c)
    /\ IF ~admitted(c) THEN Reject("register-journalist", 429)
       ELSE IF secretRequired(secret) THEN Reject("register-journalist", 403)
       ELSE IF ~Truthy(publicKey) \/ publicKey.type # "string"
            THEN Reject("register-journalist", 400)
       ELSE /\ journalistPublicKey' = publicKey
            /\ Respond("register-journalist", 200, 0)
            /\ UNCHANGED <<messages, users, fileChunks, heap, timeouts>>

(***************************************************************************)
(* POST /api/send-message, server.js 140-170.                              *)
(***************************************************************************)
storeFull == Len(messages) >= MAX_MESSAGES

SendMessage(c, from, to, encryptedData, timestamp, hasFiles, userPublicKey, r) ==
    /\ Middleware(c)
    /\ IF ~admitted(c) THEN Reject("send-message", 429)
       ELSE IF ~Truthy(from) \/ from.type # "string" THEN Reject("send-message", 400)
       ELSE IF ~validateMessageData(encryptedData) THEN Reject("send-message", 400)
       ELSE IF storeFull THEN Reject("send-message", 503)
       ELSE /\ messages' = Append(messages,
                   [id |-> newId(r),
                    from |-> from,
                    to |-> OrElse(to, Null),
                    encryptedData |-> encryptedData,
                    timestamp |-> OrElse(timestamp, Num(now)),
                    hasFiles |-> OrElse(hasFiles, False),
                    userPublicKey |-> OrElse(userPublicKey, Null),
                    fileData |-> Undefined])
            /\ Respond("send-message", 200, 0)
            /\ UNCHANGED <<users, fileChunks, heap, journalistPublicKey, timeouts>>

(***************************************************************************)
(* POST /api/send-chunk, server.js 173-231.                                *)
(***************************************************************************)
\* an address no object is at
newAddress == CHOOSE a \in 1..(Cardinality(DOMAIN heap) + 1) : a \notin DOMAIN heap

\* the chunk set created at server.js 196-203
newChunkSet(from, fileName, fileType, fileSize, totalChunks) ==
    [from |-> from, fileName |-> fileName, fileType |-> fileType,
     fileSize |-> fileSize, totalChunks |-> totalChunks,
     chunks |-> Empty, lastUpdate |-> Undefined]

\* server.js 206-207
storeChunk(set, chunkIndex, chunkData) ==
    [set EXCEPT !.chunks = With(set.chunks, chunkIndex.num, chunkData),
                !.lastUpdate = Num(now)]

\* mutant: the count taken as the length of an array of chunks
receivedChunksAsLength(set) ==
    IF DOMAIN set.chunks = {} THEN 0
    ELSE 1 + CHOOSE i \in DOMAIN set.chunks : \A j \in DOMAIN set.chunks : j <= i

\* Object.keys(...chunks).length
receivedChunks(set) == Cardinality(DOMAIN set.chunks)

\* server.js 211
isComplete(set, totalChunks) == receivedChunks(set) = totalChunks.num

SendChunk(c, from, chunkIndex, totalChunks, chunkData, fileName, fileType, fileSize, r) ==
    LET key == chunkKey(from, fileName)
        isNew == key \notin DOMAIN fileChunks
        addr == IF isNew THEN newAddress ELSE fileChunks[key].num
        old == IF isNew
               THEN newChunkSet(from, fileName, fileType, fileSize, totalChunks)
               ELSE heap[addr]
        set == storeChunk(old, chunkIndex, chunkData)
        valid == /\ Truthy(from) /\ from.type = "string"
                 /\ chunkIndex.type = "number" /\ totalChunks.type = "number"
                 /\ Truthy(chunkData) /\ chunkData.type = "string"
                 /\ Len(chunkData.str) <= MAX_CHUNK_SIZE
                 /\ Truthy(fileName) /\ fileName.type = "string"
                 /\ Len(fileName.str) <= MAX_FILENAME_LENGTH
    IN
    \* bound of the model: the length of the message list
    /\ (admitted(c) /\ valid /\ isComplete(set, totalChunks))
           => Len(messages) < MAX_MESSAGES + MaxOverflow
    /\ Middleware(c)
    /\ IF ~admitted(c) THEN Reject("send-chunk", 429)
       ELSE IF ~Truthy(from) \/ from.type # "string" THEN Reject("send-chunk", 400)
       ELSE IF chunkIndex.type # "number" \/ totalChunks.type # "number"
            THEN Reject("send-chunk", 400)
       ELSE IF ~Truthy(chunkData) \/ chunkData.type # "string"
                \/ Len(chunkData.str) > MAX_CHUNK_SIZE
            THEN Reject("send-chunk", 400)
       ELSE IF ~Truthy(fileName) \/ fileName.type # "string"
                \/ Len(fileName.str) > MAX_FILENAME_LENGTH
            THEN Reject("send-chunk", 400)
       ELSE /\ fileChunks' = With(fileChunks, key, Ref(addr))
            /\ IF isComplete(set, totalChunks)
               THEN /\ messages' = Append(messages,
                           [id |-> newId(r),
                            from |-> from,
                            to |-> Undefined,
                            encryptedData |-> Undefined,
                            timestamp |-> Num(now),
                            hasFiles |-> True,
                            userPublicKey |-> Undefined,
                            fileData |-> Ref(addr)])
                    /\ timeouts' = timeouts \cup
                           {[key |-> key, at |-> now + CHUNK_CLEANUP_DELAY]}
               ELSE UNCHANGED <<messages, timeouts>>
            /\ heap' = Collect(With(heap, addr, set), messages', fileChunks')
            /\ Respond("send-chunk", 200, receivedChunks(set))
            /\ UNCHANGED <<users, journalistPublicKey>>

(***************************************************************************)
(* GET /api/get-messages/:userType, server.js 234-252.                     *)
(***************************************************************************)
listForJournalist == messages

listForUser(hash) ==
    SelectSeq(messages, LAMBDA msg : msg.from = hash \/ msg.to = hash)

GetMessages(c, userType, hash) ==
    /\ Middleware(c)
    /\ IF ~admitted(c) THEN Reject("get-messages", 429)
       ELSE IF userType # "journalist" /\ ~validateHash(hash)
            THEN Reject("get-messages", 400)
       ELSE /\ Respond("get-messages", 200, 0)
            /\ UNCHANGED <<messages, users, fileChunks, heap, journalistPublicKey,
                           timeouts>>

(***************************************************************************)
(* POST /api/nuke-user, server.js 255-281.                                 *)
(***************************************************************************)
\* mutant: only the first message of the sender is removed
withoutFirstOfSender(msgs, hash) ==
    IF \E i \in 1..Len(msgs) : msgs[i].from = hash
    THEN LET i == CHOOSE j \in 1..Len(msgs) :
                      /\ msgs[j].from = hash
                      /\ \A k \in 1..(j - 1) : msgs[k].from # hash
         IN  SubSeq(msgs, 1, i - 1) \o SubSeq(msgs, i + 1, Len(msgs))
    ELSE msgs

\* server.js 263-267
withoutSender(msgs, hash) == SelectSeq(msgs, LAMBDA msg : msg.from # hash)

\* server.js 270-271
withoutUser(list, hash) ==
    IF \E i \in 1..Len(list) : list[i].hash = hash
    THEN LET i == CHOOSE j \in 1..Len(list) :
                      /\ list[j].hash = hash
                      /\ \A k \in 1..(j - 1) : list[k].hash # hash
         IN  SubSeq(list, 1, i - 1) \o SubSeq(list, i + 1, Len(list))
    ELSE list

\* server.js 274-278
keysOf(hash) == {key \in DOMAIN fileChunks : StartsWith(key, hash.str \o "_")}

NukeUser(c, hash) ==
    /\ Middleware(c)
    /\ IF ~admitted(c) THEN Reject("nuke-user", 429)
       ELSE IF ~validateHash(hash) THEN Reject("nuke-user", 400)
       ELSE /\ messages' = withoutSender(messages, hash)
            /\ users' = withoutUser(users, hash)
            /\ fileChunks' = Without(fileChunks, keysOf(hash))
            /\ heap' = Collect(heap, messages', fileChunks')
            /\ Respond("nuke-user", 200, 0)
            /\ UNCHANGED <<journalistPublicKey, timeouts>>

(***************************************************************************)
(* GET /health, server.js 284-286.                                         *)
(***************************************************************************)
Health(c) ==
    /\ Middleware(c)
    /\ IF ~admitted(c) THEN Reject("health", 429)
       ELSE /\ Respond("health", 200, 0)
            /\ UNCHANGED <<messages, users, fileChunks, heap, journalistPublicKey,
                           timeouts>>

(***************************************************************************)
(* Timers.                                                                 *)
(***************************************************************************)
\* setInterval callback, server.js 46-53
RateCleanup ==
    /\ "rate" \in due
    /\ due' = due \ {"rate"}
    /\ rateLimitMap' = Without(rateLimitMap,
           {key \in DOMAIN rateLimitMap : now > rateLimitMap[key].resetTime})
    /\ UNCHANGED <<now, env, messages, users, fileChunks, heap, journalistPublicKey,
                   timeouts, res, calls>>

\* now - msg.timestamp > EXPIRATION_TIME, server.js 77
isExpired(msg) ==
    msg.timestamp.type = "number" /\ now - msg.timestamp.num > EXPIRATION_TIME

\* setInterval callback, server.js 75-82
Sweep ==
    /\ "sweep" \in due
    /\ due' = due \ {"sweep"}
    /\ messages' = SelectSeq(messages, LAMBDA msg : ~isExpired(msg))
    /\ heap' = Collect(heap, messages', fileChunks)
    /\ UNCHANGED <<now, env, rateLimitMap, users, fileChunks, journalistPublicKey,
                   timeouts, res, calls>>

\* setTimeout callback, server.js 225-227
ChunkCleanup(t) ==
    /\ t \in timeouts
    /\ t.at <= now
    /\ timeouts' = timeouts \ {t}
    /\ fileChunks' = Without(fileChunks, {t.key})
    /\ heap' = Collect(heap, messages, fileChunks')
    /\ UNCHANGED <<now, env, rateLimitMap, messages, users, journalistPublicKey,
                   due, res, calls>>

(***************************************************************************)
(* The clock.  Time advances to an instant t only when every callback due  *)
(* earlier has run: no timeout lies before t, and if a period of an        *)
(* interval timer ends in (now, t] then one ends at t itself.  The interval*)
(* callbacks that would have run strictly between now and t, with no       *)
(* request in between, remove nothing that the run at t does not remove.   *)
(***************************************************************************)
Period(timer) == IF timer = "rate" THEN RATE_LIMIT_WINDOW ELSE SWEEP_INTERVAL

\* the instants the pending timeouts make the clock stop at
Deadlines ==
    {t.at : t \in timeouts}
        \cup {Floor(t.at, RATE_LIMIT_WINDOW) : t \in timeouts}
        \cup {Floor(t.at, SWEEP_INTERVAL) : t \in timeouts}

Tick(t) ==
    /\ t > now
    /\ due = {}
    /\ \A x \in timeouts : t <= x.at
    /\ \A timer \in {"rate", "sweep"} :
           Floor(t, Period(timer)) > now => t % Period(timer) = 0
    /\ now' = t
    /\ due' = {timer \in {"rate", "sweep"} : t % Period(timer) = 0}
    /\ UNCHANGED <<env, rateLimitMap, messages, users, fileChunks, heap,
                   journalistPublicKey, timeouts, res, calls>>

(***************************************************************************)
(* The specification.                                                      *)
(***************************************************************************)
\* the state once the module is loaded, with JOURNALIST_SECRET as configured
Boot(secret) ==
    /\ now = 0
    /\ env = [JOURNALIST_SECRET |-> secret]
    /\ rateLimitMap = Empty
    /\ messages = <<>>
    /\ users = <<>>
    /\ fileChunks = Empty
    /\ heap = Empty
    /\ journalistPublicKey = Null
    /\ timeouts = {}
    /\ due = {}
    /\ res = [op |-> "none", status |-> 0, received |-> 0, key |-> Undefined]
    /\ calls = Empty

\* the configured secret, and undefined when the environment sets none
Secrets == {Str("s"), Undefined}

Init == \E secret \in Secrets : Boot(secret)

(***************************************************************************)
(* Workloads.  Each specification below drives the same handlers and       *)
(* timers with the requests of one part of the system.                     *)
(***************************************************************************)
\* a valid body of POST /api/send-message
okMessage ==
    [from |-> Str(H1), to |-> Undefined, encryptedData |-> Str("d"),
     timestamp |-> Undefined]

\* bodies of POST /api/send-message that a validation rejects
BadMessages ==
    {[okMessage EXCEPT !.from = Undefined],
     [okMessage EXCEPT !.from = Str("")],
     [okMessage EXCEPT !.encryptedData = Undefined],
     [okMessage EXCEPT !.encryptedData = Str(Repeat("d", MAX_MESSAGE_SIZE + 1))]}

\* a valid body of POST /api/send-chunk
okChunk ==
    [from |-> Str(H1), chunkIndex |-> Num(0), totalChunks |-> Num(1),
     chunkData |-> Str("c"), fileName |-> Str("f")]

\* bodies of POST /api/send-chunk that a validation rejects
BadChunks ==
    {[okChunk EXCEPT !.from = Undefined],
     [okChunk EXCEPT !.chunkIndex = Undefined],
     [okChunk EXCEPT !.totalChunks = Str("1")],
     [okChunk EXCEPT !.chunkData = Undefined],
     [okChunk EXCEPT !.chunkData = Str(Repeat("c", MAX_CHUNK_SIZE + 1))],
     [okChunk EXCEPT !.fileName = Undefined],
     [okChunk EXCEPT !.fileName = Str(Repeat("f", MAX_FILENAME_LENGTH + 1))]}

\* every index in 0..MaxChunks with every totalChunks in 1..MaxChunks
AllChunks ==
    {[okChunk EXCEPT !.chunkIndex = Num(i), !.totalChunks = Num(n)] :
         i \in 0..MaxChunks, n \in 1..MaxChunks}

Message(c, q) ==
    \E r \in RandomSuffixes :
        SendMessage(c, q.from, q.to, q.encryptedData, q.timestamp,
                    Undefined, Undefined, r)

Chunk(c, q) ==
    \E r \in RandomSuffixes :
        SendChunk(c, q.from, q.chunkIndex, q.totalChunks, q.chunkData,
                  q.fileName, Undefined, Undefined, r)

\* the clock advances to one of the given instants, or to a deadline before
\* the last of them
Clock(instants) ==
    \E t \in instants \cup Deadlines :
        /\ \E last \in instants : t <= last
        /\ Tick(t)

(***************************************************************************)
(* The chunk reassembler: one sender uploading one file name, sending      *)
(* plain messages and purging its data in between.                         *)
(***************************************************************************)
NextChunks ==
    \/ \E q \in AllChunks \cup BadChunks : Chunk("ip1", q)
    \/ Message("ip1", okMessage)
    \/ NukeUser("ip1", Str(H1))
    \/ RateCleanup
    \/ \E t \in timeouts : ChunkCleanup(t)
    \/ Clock({RATE_LIMIT_WINDOW, RATE_LIMIT_WINDOW + 1})

SpecChunks == Boot(Str("s")) /\ [][NextChunks]_vars

(***************************************************************************)
(* Admission control: two clients sending requests that reach no store.    *)
(***************************************************************************)
AdmissionClients == {"ip1", "ip2"}

\* a request of client c: one that its handler answers, one that it rejects
Request(c) ==
    \/ Health(c)
    \/ GetMessages(c, "user", Undefined)

NextAdmission ==
    \/ \E c \in AdmissionClients : Request(c)
    \/ RateCleanup
    \/ Clock({RATE_LIMIT_WINDOW, RATE_LIMIT_WINDOW + 1,
              2 * RATE_LIMIT_WINDOW + 1, 2 * RATE_LIMIT_WINDOW + 2})

SpecAdmission == Init /\ [][NextAdmission]_vars

(***************************************************************************)
(* The journalist key: registrations with every kind of secret, under each *)
(* configuration of JOURNALIST_SECRET.                                     *)
(***************************************************************************)
\* publicKey of a request: two keys, and one the handler rejects
KeyInputs == {Str("P1"), Str("P2"), Undefined}

\* secret of a request: absent, the configured one, a wrong one, empty
SecretInputs == {Undefined, Str("s"), Str("w"), Str("")}

NextJournalist ==
    \/ \E publicKey \in KeyInputs, secret \in SecretInputs :
           RegisterJournalist("ip1", publicKey, secret)
    \/ RegisterUser("ip1", Str(H1))
    \/ RateCleanup
    \/ Clock({RATE_LIMIT_WINDOW, RATE_LIMIT_WINDOW + 1})

SpecJournalist == Init /\ [][NextJournalist]_vars

(***************************************************************************)
(* The message store: two senders, a complete and an incomplete upload,    *)
(* the registry, purges, reads and the first run of the sweeper.           *)
(***************************************************************************)
\* a message of the second sender to the first
replyMessage == [okMessage EXCEPT !.from = Str(H2), !.to = Str(H1)]

\* the first chunk of a file of two
partChunk == [okChunk EXCEPT !.totalChunks = Num(2)]

NextStore ==
    \/ \E q \in {okMessage, replyMessage} : Message("ip1", q)
    \/ \E q \in {okChunk, partChunk} : Chunk("ip1", q)
    \/ RegisterUser("ip1", Str(H1))
    \/ NukeUser("ip1", Str(H1))
    \/ GetMessages("ip1", "user", Str(H1))
    \/ RateCleanup
    \/ Sweep
    \/ \E t \in timeouts : ChunkCleanup(t)
    \/ Clock({SWEEP_INTERVAL})

SpecStore == Boot(Str("s")) /\ [][NextStore]_vars

(***************************************************************************)
(* Retention: messages with and without a timestamp of their own and an    *)
(* upload that never completes, over the retention horizon and the sweep   *)
(* that follows it.                                                        *)
(***************************************************************************)
\* a message whose sender sets its timestamp beyond the horizon
futureMessage == [okMessage EXCEPT !.timestamp = Num(FutureTimestamp)]

\* one sweep interval past the retention horizon
SweepInstant == EXPIRATION_TIME + SWEEP_INTERVAL

NextRetention ==
    \/ \E q \in {okMessage, futureMessage} : Message("ip1", q)
    \/ Chunk("ip1", partChunk)
    \/ \E userType \in {"journalist", "user"} : GetMessages("ip1", userType, Str(H1))
    \/ RateCleanup
    \/ Sweep
    \/ Clock({RATE_LIMIT_WINDOW + 1, EXPIRATION_TIME, SweepInstant, SweepInstant + 1})

SpecRetention == Boot(Str("s")) /\ [][NextRetention]_vars

(***************************************************************************)
(* The participant registry: three identifiers registering, two of them    *)
(* purging, and the journalist key that a registration returns.            *)
(***************************************************************************)
RegistryHashes == {Str(H1), Str(H2), Str(H3)}

NextRegistry ==
    \/ \E hash \in RegistryHashes : RegisterUser("ip1", hash)
    \/ \E hash \in {Str(H1), Str(H2)} : NukeUser("ip1", hash)
    \/ RegisterJournalist("ip1", Str("P1"), Undefined)
    \/ RateCleanup
    \/ Clock({RATE_LIMIT_WINDOW, RATE_LIMIT_WINDOW + 1,
              2 * RATE_LIMIT_WINDOW, 2 * RATE_LIMIT_WINDOW + 2})

SpecRegistry == Boot(Str("s")) /\ [][NextRegistry]_vars

(***************************************************************************)
(* Uploads of several senders: a sender that is no hash, and two (sender,  *)
(* fileName) pairs that contain the separator, with reads and purges.      *)
(***************************************************************************)
\* a sender that send-chunk accepts and validateHash rejects
U1 == "u1"

\* a one-chunk file of sender U1
u1Chunk == [okChunk EXCEPT !.from = Str(U1)]

\* the chunks of a two-chunk file "f" of sender H1x
xChunks ==
    {[okChunk EXCEPT !.from = Str(H1x), !.totalChunks = Num(2), !.chunkIndex = Num(i)] :
         i \in 0..1}

\* the chunks of a two-chunk file "x_f" of sender H1
fChunks ==
    {[okChunk EXCEPT !.fileName = Str("x_f"), !.totalChunks = Num(2),
                     !.chunkData = Str("e"), !.chunkIndex = Num(i)] : i \in 0..1}

NextUploads ==
    \/ \E q \in {u1Chunk} \cup xChunks \cup fChunks : Chunk("ip1", q)
    \/ Message("ip1", replyMessage)
    \/ \E hash \in {Str(H1), Str(H2)} : RegisterUser("ip1", hash)
    \/ NukeUser("ip1", Str(H1))
    \/ GetMessages("ip1", "journalist", Undefined)
    \/ \E hash \in {Str(U1), Str(H1)} : GetMessages("ip1", "user", hash)
    \/ RateCleanup
    \/ \E t \in timeouts : ChunkCleanup(t)
    \/ Clock({RATE_LIMIT_WINDOW, RATE_LIMIT_WINDOW + 1})

SpecUploads == Boot(Str("s")) /\ [][NextUploads]_vars

(***************************************************************************)
(* The delay after completion: two clients uploading under one key, one    *)
(* file of one chunk and one of two, and purging, while the timeouts run.  *)
(***************************************************************************)
NextGrace ==
    \/ \E c \in AdmissionClients, q \in {okChunk, partChunk} : Chunk(c, q)
    \/ \E c \in AdmissionClients : NukeUser(c, Str(H1))
    \/ RateCleanup
    \/ \E t \in timeouts : ChunkCleanup(t)
    \/ Clock({RATE_LIMIT_WINDOW, RATE_LIMIT_WINDOW + 1})

SpecGrace == Boot(Str("s")) /\ [][NextGrace]_vars

(***************************************************************************)
(* Every route of the server, each with a request it accepts and the       *)
(* requests it rejects, and every timer.                                   *)
(***************************************************************************)
\* a string that validateHash rejects
badHash == Str("zz")

Requests(c) ==
    \/ \E hash \in {Str(H1), Str(H2), Str(H3), badHash} : RegisterUser(c, hash)
    \/ \E publicKey \in {Str("P1"), Undefined}, secret \in {Str("s"), Str("w")} :
           RegisterJournalist(c, publicKey, secret)
    \/ \E q \in {okMessage} \cup BadMessages : Message(c, q)
    \/ \E q \in {okChunk} \cup BadChunks : Chunk(c, q)
    \/ \E userType \in {"journalist", "user"} : GetMessages(c, userType, badHash)
    \/ \E hash \in {Str(H1), badHash} : NukeUser(c, hash)
    \/ Health(c)

Next ==
    \/ Requests("ip1")
    \/ RateCleanup
    \/ Sweep
    \/ \E t \in timeouts : ChunkCleanup(t)
    \/ Clock({SWEEP_INTERVAL})

Spec == Boot(Str("s")) /\ [][Next]_vars

(***************************************************************************)
(* What the claims speak of.                                               *)
(***************************************************************************)
\* the indices stored under a chunk key; none when the key has no chunk set
storedIndices(key) ==
    IF key \in DOMAIN fileChunks THEN DOMAIN heap[fileChunks[key].num].chunks ELSE {}

\* the stored messages that carry the chunk set of a key as fileData
fileMessages(msgs, key) ==
    {i \in 1..Len(msgs) : key \in DOMAIN fileChunks /\ msgs[i].fileData = fileChunks[key]}

\* a message as a reader sees it: its fields, and the bundle fileData refers to
view(msg, h) ==
    [message |-> msg,
     bundle |-> IF msg.fileData.type = "object" THEN h[msg.fileData.num] ELSE Undefined]

views(msgs, h) == {view(msgs[i], h) : i \in 1..Len(msgs)}

(***************************************************************************)
(* C1.  Admission control, per client key.  The window of a client starts  *)
(* at its first call, or at its first call made more than                  *)
(* RATE_LIMIT_WINDOW after the start of its previous window (calls, the    *)
(* history, counts the calls of the window).  A call is admitted exactly   *)
(* when it is among the first RATE_LIMIT_MAX_REQUESTS calls of its window; *)
(* the call that starts a window leaves the record {count: 1, resetTime:   *)
(* now + RATE_LIMIT_WINDOW}; no call moves the end of the window, and a    *)
(* rejected call changes no record.                                        *)
(***************************************************************************)
C1_Admission ==
    [][\A c \in AdmissionClients :
          Request(c) =>
              /\ (res'.status # 429) <=> (calls'[c].n <= RATE_LIMIT_MAX_REQUESTS)
              /\ calls'[c].n = 1 => rateLimitMap'[c] = freshRecord
              /\ rateLimitMap'[c].resetTime = calls'[c].start + RATE_LIMIT_WINDOW
              /\ res'.status = 429 => rateLimitMap' = rateLimitMap]_vars

\* in a window that began after an earlier one had elapsed, a client has made
\* RATE_LIMIT_MAX_REQUESTS admitted calls and the next one was rejected
C1_Witness ==
    \E c \in AdmissionClients :
        /\ c \in DOMAIN calls
        /\ calls[c].start > RATE_LIMIT_WINDOW
        /\ calls[c].n = RATE_LIMIT_MAX_REQUESTS + 1
        /\ rateLimitMap[c].count = RATE_LIMIT_MAX_REQUESTS
        /\ res.status = 429

(***************************************************************************)
(* C2.  Chunk reassembly.  A chunk with totalChunks = N and an index in    *)
(* 0..N-1 that is not stored yet, arriving at a chunk set that holds k - 1 *)
(* indices, all in 0..N-1 (none when the key has no set), is answered      *)
(* received = k; it appends exactly one message, with hasFiles = true and  *)
(* the chunk set as fileData, when k = N, and leaves the message list as   *)
(* it is when k < N.  Hence N chunks 0..N-1 sent once each in any order    *)
(* report 1, 2, .., N and yield one file message, at the N-th.             *)
(***************************************************************************)
C2_Reassembly ==
    [][\A q \in AllChunks :
          LET key == chunkKey(q.from, q.fileName)
              had == storedIndices(key)
              N == q.totalChunks.num
              k == Cardinality(had) + 1
          IN  ( /\ res' = [op |-> "send-chunk", status |-> 200, received |-> res'.received, key |-> Undefined]
                /\ had \subseteq 0..(N - 1)
                /\ q.chunkIndex.num \in (0..(N - 1)) \ had
                /\ Chunk("ip1", q) )
              => /\ res'.received = k
                 /\ k < N => messages' = messages
                 /\ k = N =>
                       /\ Len(messages') = Len(messages) + 1
                       /\ SubSeq(messages', 1, Len(messages)) = messages
                       /\ messages'[Len(messages')].hasFiles = True
                       /\ messages'[Len(messages')].from = q.from
                       /\ messages'[Len(messages')].fileData = fileChunks'[key]
                       /\ storedIndices(key)' = 0..(N - 1)]_vars

\* a transfer of MaxChunks chunks has just completed and the store holds one
\* message for it
C2_Witness ==
    LET key == chunkKey(okChunk.from, okChunk.fileName)
    IN  /\ res = [op |-> "send-chunk", status |-> 200, received |-> MaxChunks, key |-> Undefined]
        /\ storedIndices(key) = 0..(MaxChunks - 1)
        /\ heap[fileChunks[key].num].totalChunks = Num(MaxChunks)
        /\ Cardinality(fileMessages(messages, key)) = 1
        /\ messages[Len(messages)].fileData = fileChunks[key]

(***************************************************************************)
(* C3.  In the state right after purgeSender(X) completes, whatever        *)
(* messages, chunks, registrations and sweeps came before, no message with *)
(* from = X is in listForUser(X) or in listForJournalist(), the registry   *)
(* has no record of X, and no chunk set of sender X is held.               *)
(***************************************************************************)
sendersOf(msgs) == {msgs[i].from : i \in 1..Len(msgs)}

C3_Purged ==
    [][\A hash \in {Str(H1)} :
          (/\ res'.op = "nuke-user"
           /\ res'.status = 200
           /\ NukeUser("ip1", hash))
              => /\ hash \notin sendersOf(listForUser(hash))'
                 /\ hash \notin sendersOf(listForJournalist)'
                 /\ ~isRegistered(hash)'
                 /\ \A key \in DOMAIN fileChunks' :
                        heap'[fileChunks'[key].num].from # hash]_vars

\* a purge has just removed the set of an upload whose delay still runs, and
\* messages of another sender remain
C3_Witness ==
    /\ res.op = "nuke-user" /\ res.status = 200
    /\ \E t \in timeouts :
           /\ StartsWith(t.key, H1 \o "_")
           /\ now < t.at
           /\ t.key \notin DOMAIN fileChunks
    /\ Str(H2) \in sendersOf(messages)
    /\ Str(H1) \notin sendersOf(messages)

(***************************************************************************)
(* C4.  Once the journalist key is set, its value changes only by a        *)
(* registerJournalist call whose secret is the configured shared secret,   *)
(* and a call whose secret is missing or differs from it is rejected (with *)
(* Unauthorized, or by admission control) and leaves the key as it is;     *)
(* under every configuration, also when no secret is configured.           *)
(***************************************************************************)
presentsSecret(secret) == secret.type = "string" /\ secret = env.JOURNALIST_SECRET

C4_KeyProtected ==
    [][Truthy(journalistPublicKey) =>
          /\ journalistPublicKey' # journalistPublicKey =>
                 \E publicKey \in KeyInputs, secret \in SecretInputs :
                     /\ presentsSecret(secret)
                     /\ RegisterJournalist("ip1", publicKey, secret)
          /\ \A publicKey \in KeyInputs, secret \in SecretInputs :
                 (~presentsSecret(secret) /\ RegisterJournalist("ip1", publicKey, secret))
                     => /\ res'.status \in {403, 429}
                        /\ journalistPublicKey' = journalistPublicKey]_vars

(***************************************************************************)
(* C5.  The message store never holds more than MAX_MESSAGES messages,     *)
(* whether sendMessage or the completion of an upload appended them.       *)
(***************************************************************************)
C5_Capacity == Len(messages) <= MAX_MESSAGES

(***************************************************************************)
(* C6, as stated.  A rejected request (400, 403, 503 or 429) leaves the    *)
(* message list, the participant list, the chunk-set map, the rate-limit   *)
(* map and the journalist key as they were.                                *)
(***************************************************************************)
Rejections == {400, 403, 503, 429}

C6_RejectionChangesNothing ==
    [][(res'.status \in Rejections /\ Requests("ip1"))
          => UNCHANGED <<store, rateLimitMap>>]_vars

(***************************************************************************)
(* C6, amended.  A rejected request leaves the message list, the           *)
(* participant list, the chunk-set map and the journalist key as they      *)
(* were; a request rejected with 429 leaves the rate-limit map as it was   *)
(* too, and a request that its handler rejects (400, 403, 503) has been    *)
(* counted in the rate-limit record of its client.                         *)
(***************************************************************************)
counted(c) ==
    /\ c \in DOMAIN rateLimitMap'
    /\ \/ rateLimitMap'[c] = freshRecord
       \/ /\ c \in DOMAIN rateLimitMap
          /\ rateLimitMap'[c] = [rateLimitMap[c] EXCEPT !.count = rateLimitMap[c].count + 1]
    /\ \A other \in DOMAIN rateLimitMap \ {c} :
           other \in DOMAIN rateLimitMap' /\ rateLimitMap'[other] = rateLimitMap[other]

C6_RejectionKeepsStore ==
    [][(/\ res'.status \in Rejections
        /\ Middleware("ip1")
        /\ UNCHANGED timeouts)
          => /\ UNCHANGED store
             /\ res'.status = 429 => UNCHANGED rateLimitMap
             /\ res'.status # 429 => counted("ip1")]_vars

\* the store is full, a message has just been refused, and the refused call
\* is the second of its window
C6_Witness ==
    /\ res = [op |-> "send-message", status |-> 503, received |-> 0, key |-> Undefined]
    /\ Len(messages) >= MAX_MESSAGES
    /\ "ip1" \in DOMAIN rateLimitMap
    /\ rateLimitMap["ip1"].count = 2
    /\ calls["ip1"].n = 2

(***************************************************************************)
(* C7.  No message is held in the store, where a read returns it, for      *)
(* longer than the retention horizon plus one sweep interval after it was  *)
(* accepted, whatever timestamp its sender supplied.                       *)
(***************************************************************************)
heldFor(msg) == now - msg.id.time

C7_Retention ==
    \A i \in 1..Len(listForJournalist) :
        heldFor(listForJournalist[i]) <= EXPIRATION_TIME + SWEEP_INTERVAL

(***************************************************************************)
(* C8.  A chunk set that has not completed and receives no more chunks is  *)
(* removed by a run of the sweeper: none is held whose last update is      *)
(* older than the retention horizon plus one sweep interval.               *)
(***************************************************************************)
C8_Reclaimed ==
    \A key \in DOMAIN fileChunks :
        LET set == heap[fileChunks[key].num]
        IN  ~isComplete(set, set.totalChunks)
                => now - set.lastUpdate.num <= EXPIRATION_TIME + SWEEP_INTERVAL

(***************************************************************************)
(* C9.  A stored message is immutable: a step that removes no message      *)
(* leaves every stored message, with the bundle its fileData refers to, as *)
(* it was, and a step that removes messages changes none of those it keeps.*)
(***************************************************************************)
C9_Immutable ==
    [][IF Len(messages') >= Len(messages)
       THEN \A i \in 1..Len(messages) :
                view(messages'[i], heap') = view(messages[i], heap)
       ELSE views(messages', heap') \subseteq views(messages, heap)]_vars

(***************************************************************************)
(* C10.  A chunk that repeats an index already stored, with the same       *)
(* totalChunks, for a key whose transfer has completed and whose chunk set *)
(* is still in the map (the grace delay), appends no message.              *)
(***************************************************************************)
C10_DuplicateAbsorbed ==
    [][\A q \in AllChunks :
          LET key == chunkKey(q.from, q.fileName)
          IN  ( /\ res' = [op |-> "send-chunk", status |-> 200, received |-> res'.received, key |-> Undefined]
                /\ fileMessages(messages, key) # {}
                /\ q.chunkIndex.num \in storedIndices(key)
                /\ q.totalChunks = heap[fileChunks[key].num].totalChunks
                /\ Chunk("ip1", q) )
              => messages' = messages]_vars

(***************************************************************************)
(* C11.  The registry holds at most one record per identifier, and a       *)
(* registerUser call for an identifier that has a record succeeds, adds no *)
(* record and changes nothing but the lastActive of that record, also      *)
(* after the identifier was purged and registered again.                   *)
(***************************************************************************)
oneRecordEach(list) ==
    \A i, j \in 1..Len(list) : list[i].hash = list[j].hash => i = j

C11_OneRecord ==
    [][/\ oneRecordEach(users')
       /\ \A hash \in RegistryHashes :
              (/\ isRegistered(hash)
               /\ res'.status # 429
               /\ RegisterUser("ip1", hash))
                  => /\ res'.status = 200
                     /\ Len(users') = Len(users)
                     /\ \A i \in 1..Len(users) :
                            IF users[i].hash = hash
                            THEN users'[i] = [users[i] EXCEPT !.lastActive = now]
                            ELSE users'[i] = users[i]
                     /\ UNCHANGED <<messages, fileChunks, heap, journalistPublicKey>>]_vars

\* the registry is full and its first record has just been refreshed: it
\* was appended before the second one and is now the more recent
C11_Witness ==
    /\ res.op = "register-user" /\ res.status = 200
    /\ Len(users) = MAX_USERS
    /\ users[1].lastActive = now
    /\ users[2].lastActive < now

(***************************************************************************)
(* C12.  The registry never holds more than MAX_USERS records.  At         *)
(* capacity, registerUser of a new identifier is refused with 503 and      *)
(* changes nothing, and registerUser of a registered identifier answers    *)
(* 200 with the current journalist key and refreshes lastActive.           *)
(***************************************************************************)
C12_RegistryCapacity ==
    [][/\ Len(users') <= MAX_USERS
       /\ \A hash \in RegistryHashes :
              (/\ Len(users) >= MAX_USERS
               /\ res'.status # 429
               /\ RegisterUser("ip1", hash))
                  => IF isRegistered(hash)
                     THEN /\ res' = [op |-> "register-user", status |-> 200,
                                     received |-> 0, key |-> journalistPublicKey]
                          /\ Len(users') = Len(users)
                          /\ \E i \in 1..Len(users') :
                                 users'[i] = [hash |-> hash, lastActive |-> now]
                     ELSE /\ res'.status = 503
                          /\ UNCHANGED store]_vars

\* at capacity, a registered identifier has just registered again and got
\* the journalist key back
C12_Witness ==
    /\ res = [op |-> "register-user", status |-> 200, received |-> 0, key |-> Str("P1")]
    /\ Len(users) = MAX_USERS
    /\ users[1].lastActive = now
    /\ users[2].lastActive < users[1].lastActive
    /\ journalistPublicKey = Str("P1")

(***************************************************************************)
(* C13.  While no journalist key exists, registerJournalist with a         *)
(* non-empty string publicKey succeeds whatever secret comes with it and   *)
(* stores that key; the key stops being null in no other way; and every    *)
(* registerUser that succeeds returns the stored key, null before any      *)
(* journalist registration.                                                *)
(***************************************************************************)
C13_FirstRegistration ==
    [][/\ \A publicKey \in KeyInputs, secret \in SecretInputs :
              (/\ journalistPublicKey = Null
               /\ publicKey.type = "string" /\ publicKey.str # ""
               /\ res'.status # 429
               /\ RegisterJournalist("ip1", publicKey, secret))
                  => /\ res'.status = 200
                     /\ journalistPublicKey' = publicKey
       /\ (journalistPublicKey = Null /\ journalistPublicKey' # Null)
              => res'.op = "register-journalist" /\ res'.status = 200
       /\ (/\ res'.op = "register-user"
           /\ res'.status = 200
           /\ RegisterUser("ip1", Str(H1)))
              => /\ res'.key = journalistPublicKey
                 /\ journalistPublicKey' = journalistPublicKey]_vars

\* a registration has just returned the key a journalist registered
C13_Witness ==
    /\ res.op = "register-user" /\ res.status = 200
    /\ res.key = Str("P2")
    /\ journalistPublicKey = Str("P2")
    /\ users # <<>>

(***************************************************************************)
(* C14.  Once the upload of a sender that send-chunk accepts (any          *)
(* non-empty string) has completed, a read of that sender's messages       *)
(* succeeds and returns the message with hasFiles = true and from = the    *)
(* sender, as the journalist's read does.                                  *)
(***************************************************************************)
filesOf(msgs, sender) ==
    {i \in 1..Len(msgs) : msgs[i].hasFiles = True /\ msgs[i].from = sender}

C14_SenderReadsFile ==
    [][\A sender \in {Str(U1), Str(H1)} :
          (/\ filesOf(messages, sender) # {}
           /\ res'.op = "get-messages"
           /\ res'.status # 429
           /\ GetMessages("ip1", "user", sender))
              => /\ res'.status = 200
                 /\ filesOf(listForUser(sender), sender) # {}
                 /\ filesOf(listForJournalist, sender) # {}]_vars

(***************************************************************************)
(* C15.  Each chunk set holds at most totalChunks distinct indices,        *)
(* totalChunks being the value stored in the set, and every stored index   *)
(* lies in 0..(totalChunks - 1).                                           *)
(***************************************************************************)
C15_IndicesInRange ==
    \A key \in DOMAIN fileChunks :
        LET set == heap[fileChunks[key].num]
        IN  /\ receivedChunks(set) <= set.totalChunks.num
            /\ DOMAIN set.chunks \subseteq 0..(set.totalChunks.num - 1)

(***************************************************************************)
(* C16.  listForJournalist() holds every stored message in non-decreasing  *)
(* order of timestamp (oldest first), and listForUser(id) is its           *)
(* subsequence of the messages from or to id, in the same order.           *)
(***************************************************************************)
oldestFirst(msgs) ==
    \A i, j \in 1..Len(msgs) : i < j => msgs[i].timestamp.num <= msgs[j].timestamp.num

C16_OldestFirst ==
    /\ listForJournalist = messages
    /\ oldestFirst(listForJournalist)
    /\ \A id \in {Str(H1), Str(H2)} :
           /\ oldestFirst(listForUser(id))
           /\ listForUser(id) =
                  SelectSeq(listForJournalist, LAMBDA msg : msg.from = id \/ msg.to = id)

(***************************************************************************)
(* C17.  send-chunk emits a file message exactly when the number of        *)
(* distinct indices stored in the chunk set equals the totalChunks that    *)
(* the set recorded at its creation, whatever totalChunks the chunk at     *)
(* hand declares.                                                          *)
(***************************************************************************)
C17_StoredTotalDecides ==
    [][\A q \in AllChunks :
          (/\ res'.op = "send-chunk"
           /\ res'.status = 200
           /\ Chunk("ip1", q))
              => LET setAfter == heap'[fileChunks'[chunkKey(q.from, q.fileName)].num]
                 IN  (Len(messages') > Len(messages))
                         <=> (receivedChunks(setAfter) = setAfter.totalChunks.num)]_vars

(***************************************************************************)
(* C18.  The removal scheduled at the completion of a transfer removes     *)
(* only the chunk set of a completed transfer, one that a stored file      *)
(* message holds: it never deletes a set that a new upload under the same  *)
(* key began after a purge dropped the completed one.                      *)
(***************************************************************************)
inFlight(key) ==
    /\ key \in DOMAIN fileChunks
    /\ \A i \in 1..Len(messages) : messages[i].fileData # fileChunks[key]

C18_GraceRemovesOwnSet ==
    [][\A t \in timeouts :
          (inFlight(t.key) /\ ChunkCleanup(t))
              => /\ t.key \in DOMAIN fileChunks'
                 /\ fileChunks'[t.key] = fileChunks[t.key]]_vars

(***************************************************************************)
(* C19.  Chunk sets are keyed injectively by (sender, fileName): a chunk   *)
(* submitted for one pair leaves the chunk set of every other pair as it   *)
(* is, also when a sender or a fileName contains the separator.            *)
(***************************************************************************)
UploadChunks == {u1Chunk} \cup xChunks \cup fChunks

samePair(set, q) == set.from = q.from /\ set.fileName = q.fileName

C19_InjectiveKeys ==
    [][\A q \in UploadChunks :
          (/\ res'.op = "send-chunk"
           /\ res'.status = 200
           /\ Chunk("ip1", q))
              => \A key \in DOMAIN fileChunks :
                     ~samePair(heap[fileChunks[key].num], q)
                         => /\ key \in DOMAIN fileChunks'
                            /\ heap'[fileChunks'[key].num] = heap[fileChunks[key].num]]_vars

(***************************************************************************)
(* C20.  purgeSender(X) leaves what belongs to others as it is: the        *)
(* messages with from # X in their order, the records of the other         *)
(* participants, the journalist key, and every chunk set whose sender is   *)
(* not X, also a sender that begins with X followed by the separator.      *)
(***************************************************************************)
C20_PurgeFrame ==
    [][\A hash \in {Str(H1)} :
          (/\ res'.op = "nuke-user"
           /\ res'.status = 200
           /\ NukeUser("ip1", hash))
              => /\ messages' = SelectSeq(messages, LAMBDA msg : msg.from # hash)
                 /\ users' = SelectSeq(users, LAMBDA u : u.hash # hash)
                 /\ journalistPublicKey' = journalistPublicKey
                 /\ \A key \in DOMAIN fileChunks :
                        heap[fileChunks[key].num].from # hash
                            => /\ key \in DOMAIN fileChunks'
                               /\ fileChunks'[key] = fileChunks[key]
                               /\ heap'[fileChunks'[key].num] = heap[fileChunks[key].num]]_vars

====
